---- MODULE Spec2Model ----
(***************************************************************************)
(* A model of duui_orchestrator.py: the three liveness probes, the three   *)
(* sequential stages (Sentiment, HateCheck, FactChecking), the span        *)
(* bookkeeping of run_factcheck, the fallback scorer and the renderer.     *)
(*                                                                         *)
(* Python strings are sequences of one-character strings; a character     *)
(* that has no ASCII spelling is named by its Python escape ("\\x0b").      *)
(* A value decoded from JSON carries its type: [t |-> type, v |-> value]   *)
(* with t one of null, bool, num, str, list, obj; an obj is a function     *)
(* whose domain is the set of its keys.  A number is the exact rational    *)
(* <<num, den>> in lowest terms; binary rounding of the float arithmetic   *)
(* and numbers too large for a float are not modelled.  Numbers printed    *)
(* by the renderer are not modelled: the report records which kind of      *)
(* line each section prints.                                               *)
(***************************************************************************)
EXTENDS Integers, Sequences, FiniteSets

VARIABLES
    pc,                   \* position of the run
    pairs,                \* claim_fact_pairs handed to the function under study
    sentiment_ok,         \* main: result of the Sentiment probe
    hatecheck_ok,         \* main: result of the HateCheck probe
    factcheck_ok,         \* main: result of the FactCheck probe
    calls,                \* every HTTP request issued so far, in order
    outcome,              \* what the network did to each stage's POST
    sentiment_result,     \* main: value returned by run_sentiment
    hatecheck_result,     \* main: value returned by run_hatecheck
    factcheck_result,     \* value returned by run_factcheck
    synthesized,          \* whether run_factcheck called generate_demo_scores
    report,               \* what display_results printed, section by section
    exit_status,          \* process exit status, -1 while running
    combined_text_parts,  \* run_factcheck: local of the span loop
    claims_all,           \* run_factcheck: local of the span loop
    facts_all,            \* run_factcheck: local of the span loop
    current_pos,          \* run_factcheck: local of the span loop
    scores                \* value returned by generate_demo_scores

vars == <<pc, pairs, sentiment_ok, hatecheck_ok, factcheck_ok, calls, outcome,
          sentiment_result, hatecheck_result, factcheck_result, synthesized,
          report, exit_status, combined_text_parts, claims_all, facts_all,
          current_pos, scores>>

(***************************************************************************)
(* Bounds of the model.                                                    *)
(***************************************************************************)
\* longest claim or fact string drawn for the fallback scorer
MaxStrLen == 3
\* longest pair list drawn for run_factcheck
MaxFactPairs == 2
\* longest pair list fed to the span loop (the tenth pair has a two-digit index)
MaxSpanPairs == 10

(***************************************************************************)
(* Python built-ins used by the source.                                    *)
(***************************************************************************)
Min(a, b) == IF a <= b THEN a ELSE b

Digits == <<"0", "1", "2", "3", "4", "5", "6", "7", "8", "9">>

\* the decimal text of a non-negative int, as an f-string formats it
RECURSIVE str(_)
str(n) ==
    IF n < 10 THEN <<Digits[n + 1]>>
    ELSE str(n \div 10) \o <<Digits[(n % 10) + 1]>>

UpperCase == <<"A", "B", "C", "D", "E", "F", "G", "H", "I", "J", "K", "L", "M",
               "N", "O", "P", "Q", "R", "S", "T", "U", "V", "W", "X", "Y", "Z">>
LowerCase == <<"a", "b", "c", "d", "e", "f", "g", "h", "i", "j", "k", "l", "m",
               "n", "o", "p", "q", "r", "s", "t", "u", "v", "w", "x", "y", "z">>

\* str.lower() on the ASCII alphabet of the model
lower(s) ==
    [i \in 1..Len(s) |->
        IF \E k \in 1..Len(UpperCase) : UpperCase[k] = s[i]
        THEN LowerCase[CHOOSE k \in 1..Len(UpperCase) : UpperCase[k] = s[i]]
        ELSE s[i]]

\* the characters str.split() separates on (those of str.isspace())
Whitespace ==
    {" ", "\t", "\n", "\r", "\f", "\\x0b", "\\x1c", "\\x1d", "\\x1e", "\\x1f",
     "\\x85", "\\xa0", "\\u1680", "\\u2000", "\\u2001", "\\u2002", "\\u2003",
     "\\u2004", "\\u2005", "\\u2006", "\\u2007", "\\u2008", "\\u2009", "\\u200a",
     "\\u2028", "\\u2029", "\\u202f", "\\u205f", "\\u3000"}

\* str.split() without arguments: the maximal runs of non-whitespace, in order
split(s) ==
    LET IsSpace(i) == s[i] \in Whitespace
        starts == {i \in 1..Len(s) : ~IsSpace(i) /\ (i = 1 \/ IsSpace(i - 1))}
        ends == {j \in 1..Len(s) : ~IsSpace(j) /\ (j = Len(s) \/ IsSpace(j + 1))}
        EndOf(i) == CHOOSE j \in ends : j >= i /\ \A e \in ends : e >= i => j <= e
        Nth(k) == CHOOSE i \in starts : Cardinality({x \in starts : x < i}) = k - 1
    IN  [k \in 1..Cardinality(starts) |-> SubSeq(s, Nth(k), EndOf(Nth(k)))]

\* set(list)
ToSet(seq) == {seq[i] : i \in 1..Len(seq)}

\* "".join(parts)
RECURSIVE Join(_)
Join(parts) ==
    IF parts = <<>> THEN <<>> ELSE Head(parts) \o Join(Tail(parts))

\* exact rationals in lowest terms
RECURSIVE Gcd(_, _)
Gcd(a, b) == IF b = 0 THEN a ELSE Gcd(b, a % b)
Rat(n, d) == LET g == Gcd(n, d) IN <<n \div g, d \div g>>

\* the values resp.json() produces, and the dicts the program builds
JNull == [t |-> "null", v |-> 0]
JBool(b) == [t |-> "bool", v |-> b]
JNum(q) == [t |-> "num", v |-> q]
JStr(s) == [t |-> "str", v |-> s]
JList(l) == [t |-> "list", v |-> l]
JObj(d) == [t |-> "obj", v |-> d]
EmptyDict == JObj(<<>>)
EmptyList == JList(<<>>)

\* the truth value of x in `if x`, `x and ...`, `not x`
Truthy(x) ==
    CASE x.t = "null" -> FALSE
      [] x.t = "bool" -> x.v
      [] x.t = "num" -> x.v[1] /= 0
      [] x.t = "str" -> Len(x.v) > 0
      [] x.t = "list" -> Len(x.v) > 0
      [] x.t = "obj" -> DOMAIN x.v /= {}

\* x.get exists for a dict only: on any other value it raises AttributeError
HasGet(x) == x.t = "obj"
Has(d, k) == k \in DOMAIN d.v
\* d.get(k, default), d a dict
Get(d, k, default) == IF k \in DOMAIN d.v THEN d.v[k] ELSE default

\* len(x) and iteration exist for str, list and dict; on None, a number or a
\* bool they raise TypeError
HasLen(x) == x.t \in {"str", "list", "obj"}
len(x) == IF x.t = "obj" THEN Cardinality(DOMAIN x.v) ELSE Len(x.v)

\* the keys of a dict as str values; the program never looks inside a key
\* it iterates over, so each is kept as one unit
RECURSIVE Keys(_)
Keys(S) ==
    IF S = {} THEN <<>>
    ELSE LET k == CHOOSE x \in S : TRUE
         IN  <<JStr(<<k>>)>> \o Keys(S \ {k})

\* the values `for _ in x` visits, x a str, list or dict
Items(x) ==
    IF x.t = "list" THEN x.v
    ELSE IF x.t = "str" THEN [i \in 1..Len(x.v) |-> JStr(<<x.v[i]>>)]
    ELSE Keys(DOMAIN x.v)

\* x[i] for an int i < len(x) exists for str and list; on a dict decoded from
\* JSON (str keys) it raises KeyError
HasIndex(x) == x.t \in {"str", "list"}
Index(x, i) == IF x.t = "list" THEN x.v[i + 1] ELSE JStr(<<x.v[i + 1]>>)

\* f"{x:.4f}" formats a float, an int and a bool; on a str it raises
\* ValueError, on None, a list or a dict TypeError
Formattable(x) == x.t \in {"num", "bool"}

(***************************************************************************)
(* Test fixture of the source.                                             *)
(***************************************************************************)
FACT_CHECK_PAIRS ==
    <<
       [claim |-> <<"P", "a", "r", "i", "s", " ", "i", "s", " ", "c", "a", "p", "i", "t", "a", "l", " ", "o", "f", " ", "F", "r", "a", "n", "c", "e">>,
        fact |-> <<"P", "a", "r", "i", "s", " ", "s", "e", "r", "v", "e", "s", " ", "a", "s", " ", "t", "h", "e", " ", "c", "a", "p", "i", "t", "a", "l", " ", "c", "i", "t", "y", " ", "o", "f", " ", "F", "r", "a", "n", "c", "e">>,
        claim_index |-> 0],
       [claim |-> <<"W", "a", "t", "e", "r", " ", "b", "o", "i", "l", "s", " ", "a", "t", " ", "1", "0", "0", "C">>,
        fact |-> <<"W", "a", "t", "e", "r", " ", "b", "o", "i", "l", "s", " ", "a", "t", " ", "e", "x", "a", "c", "t", "l", "y", " ", "1", "0", "0", " ", "d", "e", "g", "r", "e", "e", "s", " ", "C", "e", "l", "s", "i", "u", "s", " ", "a", "t", " ", "s", "e", "a", " ", "l", "e", "v", "e", "l">>,
        claim_index |-> 1],
       [claim |-> <<"T", "h", "e", " ", "M", "o", "o", "n", " ", "o", "r", "b", "i", "t", "s", " ", "E", "a", "r", "t", "h">>,
        fact |-> <<"T", "h", "e", " ", "M", "o", "o", "n", " ", "o", "r", "b", "i", "t", "s", " ", "a", "r", "o", "u", "n", "d", " ", "t", "h", "e", " ", "E", "a", "r", "t", "h", " ", "i", "n", " ", "a", "p", "p", "r", "o", "x", "i", "m", "a", "t", "e", "l", "y", " ", "2", "7", ".", "3", " ", "d", "a", "y", "s">>,
        claim_index |-> 2],
       [claim |-> <<"P", "y", "t", "h", "o", "n", " ", "p", "r", "o", "g", "r", "a", "m", "m", "i", "n", "g", " ", "l", "a", "n", "g", "u", "a", "g", "e", " ", "w", "a", "s", " ", "i", "n", "v", "e", "n", "t", "e", "d", " ", "i", "n", " ", "1", "9", "9", "0">>,
        fact |-> <<"P", "y", "t", "h", "o", "n", " ", "w", "a", "s", " ", "f", "i", "r", "s", "t", " ", "r", "e", "l", "e", "a", "s", "e", "d", " ", "b", "y", " ", "G", "u", "i", "d", "o", " ", "v", "a", "n", " ", "R", "o", "s", "s", "u", "m", " ", "i", "n", " ", "F", "e", "b", "r", "u", "a", "r", "y", " ", "1", "9", "9", "1">>,
        claim_index |-> 3],
       [claim |-> <<"S", "h", "a", "k", "e", "s", "p", "e", "a", "r", "e", " ", "w", "r", "o", "t", "e", " ", "H", "a", "m", "l", "e", "t">>,
        fact |-> <<"W", "i", "l", "l", "i", "a", "m", " ", "S", "h", "a", "k", "e", "s", "p", "e", "a", "r", "e", " ", "a", "u", "t", "h", "o", "r", "e", "d", " ", "t", "h", "e", " ", "t", "r", "a", "g", "e", "d", "y", " ", "H", "a", "m", "l", "e", "t", " ", "i", "n", " ", "t", "h", "e", " ", "e", "a", "r", "l", "y", " ", "1", "6", "0", "0", "s">>,
        claim_index |-> 4],
       [claim |-> <<"T", "h", "e", " ", "G", "r", "e", "a", "t", " ", "W", "a", "l", "l", " ", "o", "f", " ", "C", "h", "i", "n", "a", " ", "i", "s", " ", "v", "i", "s", "i", "b", "l", "e", " ", "f", "r", "o", "m", " ", "s", "p", "a", "c", "e", " ", "w", "i", "t", "h", " ", "t", "h", "e", " ", "n", "a", "k", "e", "d", " ", "e", "y", "e">>,
        fact |-> <<"T", "h", "e", " ", "G", "r", "e", "a", "t", " ", "W", "a", "l", "l", " ", "o", "f", " ", "C", "h", "i", "n", "a", " ", "i", "s", " ", "n", "o", "t", " ", "v", "i", "s", "i", "b", "l", "e", " ", "f", "r", "o", "m", " ", "s", "p", "a", "c", "e", " ", "w", "i", "t", "h", " ", "t", "h", "e", " ", "n", "a", "k", "e", "d", " ", "e", "y", "e", " ", "d", "u", "e", " ", "t", "o", " ", "i", "t", "s", " ", "w", "i", "d", "t", "h", " ", "a", "n", "d", " ", "c", "o", "l", "o", "r">>,
        claim_index |-> 5]
    >>

(***************************************************************************)
(* generate_demo_scores: the fallback scorer.                              *)
(***************************************************************************)
\* demo_score with the fact compared as written, not lower-cased
demo_score_fact_not_lowered(pair) ==
    LET claim == lower(pair.claim)
        fact == pair.fact
        claim_words == ToSet(split(claim))
        fact_words == ToSet(split(fact))
    IN  IF Cardinality(claim_words \cup fact_words) = 0 THEN Rat(0, 1)
        ELSE LET overlap == Cardinality(claim_words \cap fact_words)
                 union == Cardinality(claim_words \cup fact_words)
             IN  IF 12 * overlap + union >= 10 * union THEN Rat(1, 1)
                 ELSE Rat(12 * overlap + union, 10 * union)

\* the body of the loop: the score appended for one pair
demo_score(pair) ==
    LET claim == lower(pair.claim)
        fact == lower(pair.fact)
        claim_words == ToSet(split(claim))
        fact_words == ToSet(split(fact))
    IN  IF Cardinality(claim_words \cup fact_words) = 0 THEN Rat(0, 1)
        ELSE LET overlap == Cardinality(claim_words \cap fact_words)
                 union == Cardinality(claim_words \cup fact_words)
             IN  \* min(jaccard * 1.2 + 0.1, 1.0) with jaccard = overlap / union
                 IF 12 * overlap + union >= 10 * union THEN Rat(1, 1)
                 ELSE Rat(12 * overlap + union, 10 * union)

\* generate_demo_scores whose empty-union branch continues without appending 0.0
RECURSIVE generate_demo_scores_skip(_)
generate_demo_scores_skip(ps) ==
    IF ps = <<>> THEN <<>>
    ELSE IF ToSet(split(lower(Head(ps).claim))) \cup ToSet(split(lower(Head(ps).fact))) = {}
         THEN generate_demo_scores_skip(Tail(ps))
         ELSE <<demo_score(Head(ps))>> \o generate_demo_scores_skip(Tail(ps))

RECURSIVE generate_demo_scores(_)
generate_demo_scores(ps) ==
    IF ps = <<>> THEN <<>>
    ELSE <<demo_score(Head(ps))>> \o generate_demo_scores(Tail(ps))

(***************************************************************************)
(* The span loop of run_factcheck.                                         *)
(***************************************************************************)
\* the locals before the first iteration
span_init ==
    [combined_text_parts |-> <<>>, claims_all |-> <<>>, facts_all |-> <<>>,
     current_pos |-> 0]

\* span_step that appends the newline without advancing current_pos
span_step_newline_not_counted(st, claim_idx, pair) ==
    LET claim_text == pair.claim
        fact_text == pair.fact
        claim_prefix == <<"C", "l", "a", "i", "m", " ">> \o str(claim_idx + 1) \o <<":", " ">>
        claim_start == st.current_pos + Len(claim_prefix)
        claim_end == claim_start + Len(claim_text)
        fact_prefix == <<" ", "F", "a", "c", "t", " ">> \o str(claim_idx + 1) \o <<":", " ">>
        fact_start == claim_end + Len(fact_prefix)
        fact_end == fact_start + Len(fact_text)
        claim_dict ==
            [begin |-> claim_start, end |-> claim_end, text |-> claim_text,
             facts |-> <<[begin |-> fact_start, end |-> fact_end, text |-> fact_text]>>]
        fact_dict ==
            [begin |-> fact_start, end |-> fact_end, text |-> fact_text,
             claims |-> <<[begin |-> claim_start, end |-> claim_end, text |-> claim_text]>>]
    IN  [combined_text_parts |->
             st.combined_text_parts
                 \o <<claim_prefix \o claim_text, fact_prefix \o fact_text, <<"\n">> >>,
         claims_all |-> Append(st.claims_all, claim_dict),
         facts_all |-> Append(st.facts_all, fact_dict),
         current_pos |-> fact_end]

\* one iteration of `for claim_idx, pair in enumerate(claim_fact_pairs)`
span_step(st, claim_idx, pair) ==
    LET claim_text == pair.claim
        fact_text == pair.fact
        claim_prefix == <<"C", "l", "a", "i", "m", " ">> \o str(claim_idx + 1) \o <<":", " ">>
        claim_start == st.current_pos + Len(claim_prefix)
        claim_end == claim_start + Len(claim_text)
        fact_prefix == <<" ", "F", "a", "c", "t", " ">> \o str(claim_idx + 1) \o <<":", " ">>
        fact_start == claim_end + Len(fact_prefix)
        fact_end == fact_start + Len(fact_text)
        claim_dict ==
            [begin |-> claim_start, end |-> claim_end, text |-> claim_text,
             facts |-> <<[begin |-> fact_start, end |-> fact_end, text |-> fact_text]>>]
        fact_dict ==
            [begin |-> fact_start, end |-> fact_end, text |-> fact_text,
             claims |-> <<[begin |-> claim_start, end |-> claim_end, text |-> claim_text]>>]
    IN  [combined_text_parts |->
             st.combined_text_parts
                 \o <<claim_prefix \o claim_text, fact_prefix \o fact_text, <<"\n">> >>,
         claims_all |-> Append(st.claims_all, claim_dict),
         facts_all |-> Append(st.facts_all, fact_dict),
         current_pos |-> fact_end + 1]

\* the whole loop, from iteration claim_idx on, over the remaining pairs ps
RECURSIVE span_loop(_, _, _)
span_loop(st, claim_idx, ps) ==
    IF ps = <<>> THEN st
    ELSE span_loop(span_step(st, claim_idx, Head(ps)), claim_idx + 1, Tail(ps))

(***************************************************************************)
(* The network.  A request ends in a response (status, body), in a timeout *)
(* (requests.exceptions.Timeout) or in another transport error.  A body    *)
(* is "valid" (resp.json() decodes it to `body`, a value of any JSON type) *)
(* or "invalid" (resp.json() raises).                                      *)
(***************************************************************************)
Timeout == [kind |-> "timeout", status |-> 0, json |-> "none", body |-> JNull]
TransportError == [kind |-> "error", status |-> 0, json |-> "none", body |-> JNull]
Response(status, json, body) ==
    [kind |-> "response", status |-> status, json |-> json, body |-> body]
NoOutcome == [kind |-> "none", status |-> 0, json |-> "none", body |-> JNull]

(***************************************************************************)
(* check_component and the three stages.  A stage returns `value`;         *)
(* `raised` tells whether an exception left the function instead.          *)
(***************************************************************************)
check_component(o) ==
    IF o.kind = "response" THEN o.status = 200 ELSE FALSE

Return(v) == [raised |-> FALSE, value |-> v]

\* run_sentiment without the except clause: a failed request raises
run_sentiment_no_except(o) ==
    IF o.kind = "response"
    THEN IF o.status = 200
         THEN IF o.json = "valid" THEN Return(o.body) ELSE Return(EmptyDict)
         ELSE Return(EmptyDict)
    ELSE [raised |-> TRUE, value |-> EmptyDict]

\* `return resp.json()` hands back whatever the body decodes to
run_sentiment(o) ==
    IF o.kind = "response"
    THEN IF o.status = 200
         THEN IF o.json = "valid" THEN Return(o.body) ELSE Return(EmptyDict)
         ELSE Return(EmptyDict)
    ELSE Return(EmptyDict)

\* run_hatecheck without the status check: any response body is returned
run_hatecheck_no_status_check(o) ==
    IF o.kind = "response"
    THEN IF o.json = "valid" THEN Return(o.body) ELSE Return(EmptyDict)
    ELSE Return(EmptyDict)

run_hatecheck(o) ==
    IF o.kind = "response"
    THEN IF o.status = 200
         THEN IF o.json = "valid" THEN Return(o.body) ELSE Return(EmptyDict)
         ELSE Return(EmptyDict)
    ELSE Return(EmptyDict)

\* the dict of the two fallback returns, without and with timed_out
demo_result(claim_fact_pairs) ==
    LET scores_list == generate_demo_scores(claim_fact_pairs)
    IN  JObj([consistency |-> JList([i \in 1..Len(scores_list) |-> JNum(scores_list[i])]),
              is_demo |-> JBool(TRUE)])

demo_result_timed_out(claim_fact_pairs) ==
    LET scores_list == generate_demo_scores(claim_fact_pairs)
    IN  JObj([consistency |-> JList([i \in 1..Len(scores_list) |-> JNum(scores_list[i])]),
              is_demo |-> JBool(TRUE), timed_out |-> JBool(TRUE)])

\* run_factcheck without the `except requests.exceptions.Timeout` clause
run_factcheck_no_timeout_clause(claim_fact_pairs, o) ==
    IF claim_fact_pairs = <<>>
    THEN [raised |-> FALSE, value |-> EmptyDict, called |-> FALSE,
          synthesized |-> FALSE, loop |-> span_init]
    ELSE LET loop == span_loop(span_init, 0, claim_fact_pairs)
             Plain(v) == [raised |-> FALSE, value |-> v, called |-> TRUE,
                          synthesized |-> FALSE, loop |-> loop]
             Demo(v) == [raised |-> FALSE, value |-> v, called |-> TRUE,
                         synthesized |-> TRUE, loop |-> loop]
         IN  IF o.kind = "response"
             THEN IF o.status = 200
                  THEN IF o.json = "valid"
                       THEN LET result == o.body
                            IN  IF ~HasGet(result) THEN Plain(EmptyDict)
                                ELSE LET consistency == Get(result, "consistency", EmptyList)
                                     IN  IF ~Truthy(consistency)
                                         THEN Demo(demo_result(claim_fact_pairs))
                                         ELSE IF ~HasLen(consistency) THEN Plain(EmptyDict)
                                         ELSE Plain(result)
                       ELSE Plain(EmptyDict)
                  ELSE Plain(EmptyDict)
             ELSE Plain(EmptyDict)

\* `called`: whether the POST was issued; `synthesized`: whether
\* generate_demo_scores was called; `loop`: the locals after the span loop.
\* Inside the try, resp.json() raising, result.get on a value that is not a
\* dict (AttributeError) and len() of a number or bool (TypeError) all end
\* in `except Exception` and return {}.
run_factcheck(claim_fact_pairs, o) ==
    IF claim_fact_pairs = <<>>
    THEN [raised |-> FALSE, value |-> EmptyDict, called |-> FALSE,
          synthesized |-> FALSE, loop |-> span_init]
    ELSE LET loop == span_loop(span_init, 0, claim_fact_pairs)
             Plain(v) == [raised |-> FALSE, value |-> v, called |-> TRUE,
                          synthesized |-> FALSE, loop |-> loop]
             Demo(v) == [raised |-> FALSE, value |-> v, called |-> TRUE,
                         synthesized |-> TRUE, loop |-> loop]
         IN  IF o.kind = "response"
             THEN IF o.status = 200
                  THEN IF o.json = "valid"
                       THEN LET result == o.body
                            IN  IF ~HasGet(result) THEN Plain(EmptyDict)
                                ELSE LET consistency == Get(result, "consistency", EmptyList)
                                     IN  IF ~Truthy(consistency)
                                         THEN Demo(demo_result(claim_fact_pairs))
                                         ELSE IF ~HasLen(consistency) THEN Plain(EmptyDict)
                                         ELSE Plain(result)
                       ELSE Plain(EmptyDict)
                  ELSE Plain(EmptyDict)
             ELSE IF o.kind = "timeout"
                  THEN Demo(demo_result_timed_out(claim_fact_pairs))
                  ELSE Plain(EmptyDict)

(***************************************************************************)
(* display_results.  Each section is the sequence of the kinds of line it  *)
(* prints; `raised` tells whether an exception left the function, the      *)
(* lines being those printed before it did.                                *)
(***************************************************************************)
Printed(lines) == [raised |-> FALSE, lines |-> lines]
Raised(lines) == [raised |-> TRUE, lines |-> lines]
\* statements a, then statements b unless a raised
Then(a, b) ==
    IF a.raised THEN a ELSE [raised |-> b.raised, lines |-> a.lines \o b.lines]

\* the inner loop `for sentence in ...`, from the i-th value on: sentence.get
\* raises unless the sentence is a dict, and formatting pos, neu or neg with
\* :.4f raises unless it is a number or a bool (None when the key is absent)
RECURSIVE sentence_lines(_, _)
sentence_lines(sentences, i) ==
    IF i > Len(sentences) THEN Printed(<<>>)
    ELSE LET sentence == sentences[i]
         IN  IF ~HasGet(sentence) THEN Raised(<<>>)
             ELSE LET pos == Get(sentence, "pos", JNull)
                      neu == Get(sentence, "neu", JNull)
                      neg == Get(sentence, "neg", JNull)
                  IN  IF pos.t /= "null"
                      THEN IF Formattable(pos) /\ Formattable(neu) /\ Formattable(neg)
                           THEN Then(Printed(<<"Sentiment Scores:", "Overall:">>),
                                     sentence_lines(sentences, i + 1))
                           ELSE Raised(<<"Sentiment Scores:">>)
                      ELSE sentence_lines(sentences, i + 1)

\* the outer loop `for selection in ...`, from the i-th value on
RECURSIVE selection_lines(_, _)
selection_lines(selections, i) ==
    IF i > Len(selections) THEN Printed(<<>>)
    ELSE LET selection == selections[i]
         IN  IF ~HasGet(selection) THEN Raised(<<>>)
             ELSE LET sentences == Get(selection, "sentences", EmptyList)
                  IN  IF ~HasLen(sentences) THEN Raised(<<>>)
                      ELSE Then(sentence_lines(Items(sentences), 1),
                                selection_lines(selections, i + 1))

sentiment_section(s_result) ==
    LET head == <<"--- SENTIMENT OUTPUT ---", "Input Text:">>
    IN  IF ~Truthy(s_result) THEN Printed(head \o <<"(No output)">>)
        ELSE IF ~HasGet(s_result) THEN Raised(head)
        ELSE IF ~Truthy(Get(s_result, "selections", JNull))
             THEN Printed(head \o <<"(No output)">>)
        ELSE LET meta == Get(s_result, "meta", EmptyDict)
                 selections == Get(s_result, "selections", EmptyList)
             IN  IF ~HasGet(meta) THEN Raised(head)
                 ELSE IF ~HasLen(selections) THEN Raised(head \o <<"Model:", "Version:">>)
                 ELSE Then(Printed(head \o <<"Model:", "Version:">>),
                           selection_lines(Items(selections), 1))

\* the loop `for i, hate in enumerate(hate_scores)`, from index i on: the
\* non_hate lookup comes before the title line, the two :.4f after it
RECURSIVE hate_lines(_, _, _)
hate_lines(h_result, hate_scores, i) ==
    IF i >= Len(hate_scores) THEN Printed(<<>>)
    ELSE LET hate == hate_scores[i + 1]
             non_hate_list == Get(h_result, "non_hate", EmptyList)
         IN  IF ~HasLen(non_hate_list) THEN Raised(<<>>)
             ELSE IF i < len(non_hate_list) /\ ~HasIndex(non_hate_list) THEN Raised(<<>>)
             ELSE LET non_hate == IF i < len(non_hate_list)
                                  THEN Index(Get(h_result, "non_hate",
                                                 JList(<<JNum(Rat(0, 1))>>)), i)
                                  ELSE JNum(Rat(0, 1))
                  IN  IF Formattable(hate) /\ Formattable(non_hate)
                      THEN Then(Printed(<<"Hate Speech Detection Scores:", "Status:">>),
                                hate_lines(h_result, hate_scores, i + 1))
                      ELSE Raised(<<"Hate Speech Detection Scores:">>)

hate_section(h_result) ==
    LET head == <<"--- HATE SPEECH OUTPUT ---", "Input Text:">>
    IN  IF ~Truthy(h_result) THEN Printed(head \o <<"(No output)">>)
        ELSE IF ~HasGet(h_result) THEN Raised(head)
        ELSE LET meta == Get(h_result, "meta", EmptyDict)
                 hate_scores == Get(h_result, "hate", EmptyList)
             IN  IF ~HasGet(meta) THEN Raised(head)
                 ELSE IF ~Truthy(hate_scores)
                      THEN Printed(head \o <<"Model:", "(No hate speech detected)">>)
                 ELSE IF ~HasLen(hate_scores) THEN Raised(head \o <<"Model:">>)
                 ELSE Then(Printed(head \o <<"Model:">>),
                           hate_lines(h_result, Items(hate_scores), 0))

\* the loop `for i in range(min(len(consistency), len(claim_fact_pairs)))`,
\* from index i on: consistency[i] comes before the "Pair" line, :.4f after it
RECURSIVE pair_lines(_, _, _)
pair_lines(consistency, n, i) ==
    IF i >= n THEN Printed(<<>>)
    ELSE IF ~HasIndex(consistency) THEN Raised(<<>>)
    ELSE LET score == Index(consistency, i)
         IN  IF Formattable(score)
             THEN Then(Printed(<<"Pair">>), pair_lines(consistency, n, i + 1))
             ELSE Raised(<<"Pair">>)

fact_section(f_result, claim_fact_pairs) ==
    LET head == <<"--- FACT CHECKING OUTPUT ---">>
    IN  IF ~Truthy(f_result) THEN Printed(head \o <<"(No output)">>)
        ELSE IF ~HasGet(f_result) THEN Raised(head)
        ELSE LET is_demo == Get(f_result, "is_demo", JBool(FALSE))
                 timed_out == Get(f_result, "timed_out", JBool(FALSE))
                 consistency == Get(f_result, "consistency", EmptyList)
             IN  IF ~Truthy(consistency) THEN Printed(head \o <<"(No results)">>)
                 ELSE IF ~HasLen(consistency) THEN Raised(head)
                 ELSE Then(Printed(head
                               \o (IF Truthy(is_demo)
                                   THEN IF Truthy(timed_out)
                                        THEN <<"Component timed out - using demo scores">>
                                        ELSE <<"Component returned empty - using demo scores">>
                                   ELSE <<>>)
                               \o <<"Fact-Checking Results">>),
                           pair_lines(consistency,
                                      Min(len(consistency), Len(claim_fact_pairs)), 0))

NoReport == [sentiment |-> <<>>, hate |-> <<>>, fact |-> <<>>]

display_results(s_result, h_result, f_result, claim_fact_pairs) ==
    LET s == sentiment_section(s_result)
        h == hate_section(h_result)
        f == fact_section(f_result, claim_fact_pairs)
    IN  IF s.raised
        THEN [raised |-> TRUE, sentiment |-> s.lines, hate |-> <<>>, fact |-> <<>>]
        ELSE IF h.raised
             THEN [raised |-> TRUE, sentiment |-> s.lines, hate |-> h.lines, fact |-> <<>>]
             ELSE [raised |-> f.raised, sentiment |-> s.lines, hate |-> h.lines,
                   fact |-> f.lines]

(***************************************************************************)
(* Endpoints and the inputs the network can hand to the program.  Beside   *)
(* the answers of the shapes the services document, each stage can be      *)
(* handed JSON of any other type.                                          *)
(***************************************************************************)
SENTIMENT_URL == "http://localhost:9001"
HATECHECK_URL == "http://localhost:9002"
FACTCHECK_URL == "http://localhost:9003"

Request(method, url, path, timeout) ==
    [method |-> method, url |-> url, path |-> path, timeout |-> timeout]

ProbeOutcomes ==
    {Response(200, "valid", EmptyDict), Response(503, "valid", EmptyDict),
     Timeout, TransportError}

\* failures of a POST: bad status, a 200 whose body is not JSON, timeout, transport error
StageFailures ==
    {Response(500, "valid", JObj([detail |-> JStr(<<"e">>)])),
     Response(200, "invalid", JNull),
     Timeout, TransportError}

Meta == JObj([modelName |-> JStr(<<"m">>), version |-> JStr(<<"v">>)])
Sentence(pos, neu, neg) == JObj([pos |-> pos, neu |-> neu, neg |-> neg])
Selections(sentences) == JList(<<JObj([sentences |-> sentences])>>)
Low == JNum(Rat(1, 20))
Mid == JNum(Rat(3, 20))
High == JNum(Rat(4, 5))

\* answers of the documented shape, complete or with parts left out
SentimentBodies ==
    {EmptyDict,
     JObj([meta |-> Meta]),
     JObj([selections |-> EmptyList]),
     JObj([selections |-> Selections(EmptyList)]),
     JObj([selections |-> Selections(JList(<<Sentence(Low, Mid, High)>>)), meta |-> Meta]),
     JObj([selections |-> Selections(JList(<<JObj([text |-> JStr(<<"t">>)])>>))]),
     JObj([selections |-> Selections(JList(<<JObj([pos |-> Low])>>))])}

\* answers of other types
SentimentOddBodies ==
    {JNull,
     JNum(Rat(5, 1)),
     JStr(<<"x">>),
     JList(<<JNum(Rat(1, 1))>>),
     JObj([selections |-> JStr(<<"x">>)]),
     JObj([selections |-> JNum(Rat(5, 1))]),
     JObj([selections |-> JList(<<JNum(Rat(1, 1))>>)]),
     JObj([selections |-> Selections(JNull)]),
     JObj([selections |-> Selections(JList(<<JNum(Rat(1, 1))>>))]),
     JObj([selections |-> Selections(EmptyList), meta |-> JStr(<<"x">>)]),
     JObj([selections |-> Selections(JList(<<Sentence(JStr(<<"h">>), Mid, High)>>))]),
     JObj([selections |-> Selections(JList(<<Sentence(Low, Mid, JList(<<Low>>))>>))]),
     JObj([selections |-> Selections(JList(<<Sentence(JBool(TRUE), Mid, High)>>))]),
     JObj([selections |-> Selections(JList(<<Sentence(JNull, JStr(<<"x">>), High)>>))])}

HateBodies ==
    {EmptyDict,
     JObj([hate |-> EmptyList, non_hate |-> EmptyList]),
     JObj([hate |-> JList(<<High>>), non_hate |-> JList(<<Low>>),
           meta |-> JObj([modelName |-> JStr(<<"m">>)])]),
     JObj([hate |-> JList(<<Mid>>)])}

HateOddBodies ==
    {JNull,
     JStr(<<"x">>),
     JList(<<JNum(Rat(1, 1))>>),
     JObj([hate |-> JList(<<JNull>>)]),
     JObj([hate |-> JList(<<JStr(<<"x">>)>>), non_hate |-> JList(<<Low>>)]),
     JObj([hate |-> JList(<<High>>), non_hate |-> JList(<<JStr(<<"x">>)>>)]),
     JObj([hate |-> JList(<<High>>), non_hate |-> JNull]),
     JObj([hate |-> JList(<<High>>), non_hate |-> JObj([k |-> Low])]),
     JObj([hate |-> JList(<<High>>), non_hate |-> JStr(<<"x">>)]),
     JObj([hate |-> JNum(Rat(5, 1))]),
     JObj([hate |-> JStr(<<"x">>)]),
     JObj([hate |-> JObj([k |-> High])]),
     JObj([hate |-> JList(<<Mid>>), meta |-> JStr(<<"m">>)])}

ServiceScores == {<<JNum(Rat(1, 2))>>, <<JNum(Rat(9, 10)), JNum(Rat(1, 5))>>}

FactBodies ==
    {EmptyDict, JObj([consistency |-> EmptyList]),
     JObj([consistency |-> EmptyList, timed_out |-> JBool(TRUE)])}
        \cup {JObj([consistency |-> JList(c)]) : c \in ServiceScores}
        \cup {JObj([consistency |-> JList(c), is_demo |-> JBool(TRUE)]) : c \in ServiceScores}

FactOddBodies ==
    {JNull,
     JList(<<JNum(Rat(1, 1))>>),
     JObj([consistency |-> JNull]),
     JObj([consistency |-> JNum(Rat(0, 1))]),
     JObj([consistency |-> JNum(Rat(5, 1))]),
     JObj([consistency |-> JStr(<<"x">>)]),
     JObj([consistency |-> JObj([k |-> High])]),
     JObj([consistency |-> JList(<<JNull>>)]),
     JObj([consistency |-> JList(<<JStr(<<"x">>), JStr(<<"y">>)>>)])}

SentimentOutcomes ==
    StageFailures \cup {Response(200, "valid", b) : b \in SentimentBodies \cup SentimentOddBodies}
HateOutcomes ==
    StageFailures \cup {Response(200, "valid", b) : b \in HateBodies \cup HateOddBodies}
FactOutcomes ==
    StageFailures \cup {Response(200, "valid", b) : b \in FactBodies \cup FactOddBodies}

(***************************************************************************)
(* main(): one action per call it makes.                                   *)
(***************************************************************************)
\* the state after start-up, with control at `start` and the pair list `ps`
StartAt(start, ps) ==
    /\ pc = start
    /\ pairs = ps
    /\ sentiment_ok = FALSE
    /\ hatecheck_ok = FALSE
    /\ factcheck_ok = FALSE
    /\ calls = <<>>
    /\ outcome = [sentiment |-> NoOutcome, hatecheck |-> NoOutcome, factcheck |-> NoOutcome]
    /\ sentiment_result = EmptyDict
    /\ hatecheck_result = EmptyDict
    /\ factcheck_result = EmptyDict
    /\ synthesized = FALSE
    /\ report = NoReport
    /\ exit_status = -1
    /\ combined_text_parts = span_init.combined_text_parts
    /\ claims_all = span_init.claims_all
    /\ facts_all = span_init.facts_all
    /\ current_pos = span_init.current_pos
    /\ scores = <<>>

Init == StartAt("probe_sentiment", FACT_CHECK_PAIRS)

span_vars == <<combined_text_parts, claims_all, facts_all, current_pos>>
stage_vars == <<outcome, sentiment_result, hatecheck_result, factcheck_result,
                synthesized, span_vars>>

\* sentiment_ok = check_component("Sentiment", SENTIMENT_URL)
ProbeSentiment ==
    /\ pc = "probe_sentiment"
    /\ \E o \in ProbeOutcomes : sentiment_ok' = check_component(o)
    /\ calls' = Append(calls, Request("GET", SENTIMENT_URL, "/v1/typesystem", 5))
    /\ pc' = "probe_hatecheck"
    /\ UNCHANGED <<pairs, hatecheck_ok, factcheck_ok, stage_vars, report, exit_status, scores>>

\* hatecheck_ok = check_component("HateCheck", HATECHECK_URL)
ProbeHateCheck ==
    /\ pc = "probe_hatecheck"
    /\ \E o \in ProbeOutcomes : hatecheck_ok' = check_component(o)
    /\ calls' = Append(calls, Request("GET", HATECHECK_URL, "/v1/typesystem", 5))
    /\ pc' = "probe_factcheck"
    /\ UNCHANGED <<pairs, sentiment_ok, factcheck_ok, stage_vars, report, exit_status, scores>>

\* factcheck_ok = check_component("FactCheck", FACTCHECK_URL)
ProbeFactCheck ==
    /\ pc = "probe_factcheck"
    /\ \E o \in ProbeOutcomes : factcheck_ok' = check_component(o)
    /\ calls' = Append(calls, Request("GET", FACTCHECK_URL, "/v1/typesystem", 5))
    /\ pc' = "check"
    /\ UNCHANGED <<pairs, sentiment_ok, hatecheck_ok, stage_vars, report, exit_status, scores>>

\* the availability test with `or` in place of `and`
all_available_any(s_ok, h_ok, f_ok) == s_ok \/ h_ok \/ f_ok

\* the condition of `if not (sentiment_ok and hatecheck_ok and factcheck_ok)`, negated
all_available(s_ok, h_ok, f_ok) == s_ok /\ h_ok /\ f_ok

\* some probe failed: return 1
Unavailable ==
    /\ pc = "check"
    /\ ~all_available(sentiment_ok, hatecheck_ok, factcheck_ok)
    /\ exit_status' = 1
    /\ pc' = "done"
    /\ UNCHANGED <<pairs, sentiment_ok, hatecheck_ok, factcheck_ok, calls, stage_vars,
                   report, scores>>

\* all probes succeeded: the pipeline starts
AllAvailable ==
    /\ pc = "check"
    /\ all_available(sentiment_ok, hatecheck_ok, factcheck_ok)
    /\ pc' = "run_sentiment"
    /\ UNCHANGED <<pairs, sentiment_ok, hatecheck_ok, factcheck_ok, calls, stage_vars,
                   report, exit_status, scores>>

\* sentiment_result = run_sentiment(TEST_TEXT)
RunSentiment ==
    /\ pc = "run_sentiment"
    /\ \E o \in SentimentOutcomes :
          LET r == run_sentiment(o)
          IN  /\ outcome' = [outcome EXCEPT !.sentiment = o]
              /\ sentiment_result' = r.value
              /\ pc' = IF r.raised THEN "crashed" ELSE "run_hatecheck"
              /\ exit_status' = IF r.raised THEN 1 ELSE exit_status
    /\ calls' = Append(calls, Request("POST", SENTIMENT_URL, "/v1/process", 180))
    /\ UNCHANGED <<pairs, sentiment_ok, hatecheck_ok, factcheck_ok, hatecheck_result,
                   factcheck_result, synthesized, span_vars, report, scores>>

\* hatecheck_result = run_hatecheck(TEST_TEXT)
RunHateCheck ==
    /\ pc = "run_hatecheck"
    /\ \E o \in HateOutcomes :
          LET r == run_hatecheck(o)
          IN  /\ outcome' = [outcome EXCEPT !.hatecheck = o]
              /\ hatecheck_result' = r.value
              /\ pc' = IF r.raised THEN "crashed" ELSE "run_factcheck"
              /\ exit_status' = IF r.raised THEN 1 ELSE exit_status
    /\ calls' = Append(calls, Request("POST", HATECHECK_URL, "/v1/process", 60))
    /\ UNCHANGED <<pairs, sentiment_ok, hatecheck_ok, factcheck_ok, sentiment_result,
                   factcheck_result, synthesized, span_vars, report, scores>>

\* the effect of one call of run_factcheck(pairs) on the state, then control at `next`
FactCheckStep(o, next) ==
    \E r \in {run_factcheck(pairs, o)} :
        /\ outcome' = [outcome EXCEPT !.factcheck = IF r.called THEN o ELSE NoOutcome]
        /\ factcheck_result' = r.value
        /\ synthesized' = r.synthesized
        /\ combined_text_parts' = r.loop.combined_text_parts
        /\ claims_all' = r.loop.claims_all
        /\ facts_all' = r.loop.facts_all
        /\ current_pos' = r.loop.current_pos
        /\ calls' = IF r.called
                    THEN Append(calls, Request("POST", FACTCHECK_URL, "/v1/process", 300))
                    ELSE calls
        /\ pc' = IF r.raised THEN "crashed" ELSE next
        /\ exit_status' = IF r.raised THEN 1 ELSE exit_status

\* factcheck_result = run_factcheck(FACT_CHECK_PAIRS)
RunFactCheck ==
    /\ pc = "run_factcheck"
    /\ \E o \in FactOutcomes : FactCheckStep(o, "display")
    /\ UNCHANGED <<pairs, sentiment_ok, hatecheck_ok, factcheck_ok, sentiment_result,
                   hatecheck_result, report, scores>>

\* display_results(...), then return 0; an exception leaving it ends the process
DisplayResults ==
    /\ pc = "display"
    /\ LET d == display_results(sentiment_result, hatecheck_result, factcheck_result, pairs)
       IN  /\ report' = [sentiment |-> d.sentiment, hate |-> d.hate, fact |-> d.fact]
           /\ pc' = IF d.raised THEN "crashed" ELSE "done"
           /\ exit_status' = IF d.raised THEN 1 ELSE 0
    /\ UNCHANGED <<pairs, sentiment_ok, hatecheck_ok, factcheck_ok, calls, stage_vars, scores>>

Next ==
    \/ ProbeSentiment
    \/ ProbeHateCheck
    \/ ProbeFactCheck
    \/ Unavailable
    \/ AllAvailable
    \/ RunSentiment
    \/ RunHateCheck
    \/ RunFactCheck
    \/ DisplayResults

Spec == Init /\ [][Next]_vars

(***************************************************************************)
(* run_factcheck on its own, over bounded pair lists.                      *)
(***************************************************************************)
SeqsUpTo(S, n) == UNION {[1..k -> S] : k \in 0..n}

FactStrings == {<<>>, <<"a">>, <<"B">>, <<"a", " ", "b">>}
FactPairs == {[claim |-> c, fact |-> f] : c \in FactStrings, f \in FactStrings}

InitFact == \E ps \in SeqsUpTo(FactPairs, MaxFactPairs) : StartAt("fact_start", ps)

\* factcheck_result = run_factcheck(pairs)
FactCheckCall ==
    /\ pc = "fact_start"
    /\ \E o \in FactOutcomes : FactCheckStep(o, "fact_done")
    /\ UNCHANGED <<pairs, sentiment_ok, hatecheck_ok, factcheck_ok, sentiment_result,
                   hatecheck_result, report, scores>>

NextFact == FactCheckCall

SpecFact == InitFact /\ [][NextFact]_vars

(***************************************************************************)
(* generate_demo_scores on its own, over every pair of bounded strings.    *)
(***************************************************************************)
\* a letter, a capital, a blank and a separator that is not a blank (vertical tab)
Alphabet == {"a", "B", " ", "\\x0b"}
Strings == SeqsUpTo(Alphabet, MaxStrLen)

InitScore ==
    \E c \in Strings, f \in Strings : StartAt("score_start", <<[claim |-> c, fact |-> f]>>)

\* scores = generate_demo_scores(pairs)
Score ==
    /\ pc = "score_start"
    /\ scores' = generate_demo_scores(pairs)
    /\ pc' = "score_done"
    /\ UNCHANGED <<pairs, sentiment_ok, hatecheck_ok, factcheck_ok, calls, stage_vars,
                   report, exit_status>>

NextScore == Score

SpecScore == InitScore /\ [][NextScore]_vars

(***************************************************************************)
(* The span loop on its own, one iteration per step, over pair lists long  *)
(* enough for a two-digit index.  `pairs` is the list consumed so far.     *)
(***************************************************************************)
SpanPairs ==
    {[claim |-> <<>>, fact |-> <<>>],
     [claim |-> <<"a", "b">>, fact |-> <<>>],
     [claim |-> <<"a">>, fact |-> <<"b", " ", "c">>]}

InitSpan == StartAt("span_loop", <<>>)

SpanIteration ==
    /\ pc = "span_loop"
    /\ Len(pairs) < MaxSpanPairs
    /\ \E pair \in SpanPairs :
          \E st \in {span_step([combined_text_parts |-> combined_text_parts,
                                claims_all |-> claims_all, facts_all |-> facts_all,
                                current_pos |-> current_pos], Len(pairs), pair)} :
              /\ pairs' = Append(pairs, pair)
              /\ combined_text_parts' = st.combined_text_parts
              /\ claims_all' = st.claims_all
              /\ facts_all' = st.facts_all
              /\ current_pos' = st.current_pos
    /\ UNCHANGED <<pc, sentiment_ok, hatecheck_ok, factcheck_ok, calls, outcome,
                   sentiment_result, hatecheck_result, factcheck_result, synthesized,
                   report, exit_status, scores>>

NextSpan == SpanIteration

SpecSpan == InitSpan /\ [][NextSpan]_vars

(***************************************************************************)
(* Properties.                                                             *)
(***************************************************************************)
\* the POST /v1/process requests issued so far, and the services they went to
ProcessCalls == SelectSeq(calls, LAMBDA c : c.method = "POST" /\ c.path = "/v1/process")
ProcessUrls == [i \in 1..Len(ProcessCalls) |-> ProcessCalls[i].url]
StageOrder == <<SENTIMENT_URL, HATECHECK_URL, FACTCHECK_URL>>

ProbesDone == pc \notin {"probe_sentiment", "probe_hatecheck", "probe_factcheck"}
AllProbesOk == sentiment_ok /\ hatecheck_ok /\ factcheck_ok

\* a 200 response that parses to an object whose consistency is absent or
\* empty; empty is what the truth test finds empty: [], and "", {}, null, 0
\* and false as well
EmptyConsistency200(o) ==
    /\ o.kind = "response"
    /\ o.status = 200
    /\ o.json = "valid"
    /\ o.body.t = "obj"
    /\ ("consistency" \in DOMAIN o.body.v =>
           LET c == o.body.v.consistency
           IN  \/ c.t \in {"str", "list"} /\ Len(c.v) = 0
               \/ c.t = "obj" /\ DOMAIN c.v = {}
               \/ c.t = "null"
               \/ c.t = "num" /\ c.v[1] = 0
               \/ c.t = "bool" /\ ~c.v)

\* a 200 response that parses to an object with a non-empty consistency list
RealConsistency200(o) ==
    /\ o.kind = "response"
    /\ o.status = 200
    /\ o.json = "valid"
    /\ o.body.t = "obj"
    /\ "consistency" \in DOMAIN o.body.v
    /\ o.body.v.consistency.t = "list"
    /\ Len(o.body.v.consistency.v) > 0

BadStatus(o) == o.kind = "response" /\ o.status /= 200

\* C1: when a liveness probe has failed, no POST /v1/process is ever issued,
\* the run can only return from the availability check, and it returns 1.
C1_ProbeFailureAborts ==
    /\ (ProcessCalls /= <<>> => AllProbesOk)
    /\ (ProbesDone /\ ~AllProbesOk) =>
           /\ pc \in {"check", "done"}
           /\ (pc = "check" => ENABLED Unavailable)
           /\ (pc = "done" => exit_status = 1)

C1_Witness ==
    /\ pc = "done"
    /\ exit_status = 1
    /\ sentiment_ok
    /\ ~hatecheck_ok
    /\ factcheck_ok
    /\ Len(calls) = 3

\* C2: once all probes succeeded, the process calls issued so far are a prefix
\* of Sentiment, HateCheck, FactCheck (none repeated, none out of order), each
\* stage that has been passed has issued its call whatever it received, and
\* the run gets to the renderer only with all three issued.
C2_StagesOnceInOrder ==
    /\ Len(ProcessUrls) <= Len(StageOrder)
    /\ \A i \in 1..Len(ProcessUrls) : i <= Len(StageOrder) => ProcessUrls[i] = StageOrder[i]
    /\ (ProbesDone /\ AllProbesOk) =>
           /\ (pc \in {"check", "run_sentiment"} => Len(ProcessUrls) = 0)
           /\ (pc = "run_hatecheck" => Len(ProcessUrls) = 1)
           /\ (pc = "run_factcheck" => Len(ProcessUrls) = 2)
           /\ (pc \in {"display", "done", "crashed"} => ProcessUrls = StageOrder)

C2_Witness ==
    /\ pc = "done"
    /\ exit_status = 0
    /\ outcome.sentiment.kind = "error"
    /\ outcome.hatecheck.kind = "timeout"
    /\ BadStatus(outcome.factcheck)
    /\ ProcessUrls = StageOrder

\* C3: run_factcheck on a non-empty pair list, answered 200 with an empty or
\* absent consistency list, returns is_demo = true, no timed_out, and a
\* consistency list as long as the pair list.
C3_EmptyAnswerIsDemo ==
    (pc = "fact_done" /\ pairs /= <<>> /\ EmptyConsistency200(outcome.factcheck)) =>
        /\ Get(factcheck_result, "is_demo", JBool(FALSE)) = JBool(TRUE)
        /\ Get(factcheck_result, "timed_out", JBool(FALSE)) = JBool(FALSE)
        /\ Has(factcheck_result, "consistency")
        /\ Get(factcheck_result, "consistency", JNull).t = "list"
        /\ Len(Get(factcheck_result, "consistency", EmptyList).v) = Len(pairs)

C3_Witness ==
    /\ pc = "fact_done"
    /\ Len(pairs) = 2
    /\ pairs[1].claim = <<>>
    /\ pairs[1].fact = <<>>
    /\ outcome.factcheck = Response(200, "valid", JObj([consistency |-> EmptyList]))
    /\ Get(factcheck_result, "is_demo", JBool(FALSE)) = JBool(TRUE)

\* C4: run_factcheck on a non-empty pair list whose call timed out returns
\* is_demo = true, timed_out = true and, for each input pair in input order,
\* the fallback score of that pair.
C4_TimeoutIsDemo ==
    (pc = "fact_done" /\ pairs /= <<>> /\ outcome.factcheck.kind = "timeout") =>
        /\ Get(factcheck_result, "is_demo", JBool(FALSE)) = JBool(TRUE)
        /\ Get(factcheck_result, "timed_out", JBool(FALSE)) = JBool(TRUE)
        /\ Has(factcheck_result, "consistency")
        /\ Get(factcheck_result, "consistency", JNull).t = "list"
        /\ Len(Get(factcheck_result, "consistency", EmptyList).v) = Len(pairs)
        /\ \A i \in 1..Len(pairs) :
               i <= Len(Get(factcheck_result, "consistency", EmptyList).v) =>
                   factcheck_result.v.consistency.v[i] = JNum(demo_score(pairs[i]))

C4_Witness ==
    /\ pc = "fact_done"
    /\ Len(pairs) = 2
    /\ pairs[1] /= pairs[2]
    /\ outcome.factcheck.kind = "timeout"
    /\ Get(factcheck_result, "timed_out", JBool(FALSE)) = JBool(TRUE)
    /\ factcheck_result.v.consistency.v[1] /= factcheck_result.v.consistency.v[2]

\* C5: scores are synthesized exactly when the fact-check call timed out or
\* was answered 200 with an object whose consistency is empty or absent; a
\* bad status or a transport error in any stage, and a timeout in the
\* sentiment or hate-speech stage, leave that stage with the empty result
\* (no scores, no is_demo, no timed_out).
C5_FallbackOnlyForFactCheck ==
    /\ synthesized <=>
           (outcome.factcheck.kind = "timeout" \/ EmptyConsistency200(outcome.factcheck))
    /\ (BadStatus(outcome.sentiment) \/ outcome.sentiment.kind \in {"error", "timeout"})
           => sentiment_result = EmptyDict
    /\ (BadStatus(outcome.hatecheck) \/ outcome.hatecheck.kind \in {"error", "timeout"})
           => hatecheck_result = EmptyDict
    /\ (BadStatus(outcome.factcheck) \/ outcome.factcheck.kind = "error")
           => factcheck_result = EmptyDict

C5_Witness ==
    /\ pc = "done"
    /\ outcome.sentiment.kind = "timeout"
    /\ BadStatus(outcome.hatecheck)
    /\ outcome.factcheck.kind = "timeout"
    /\ sentiment_result = EmptyDict
    /\ hatecheck_result = EmptyDict
    /\ synthesized

\* C6: a 200 answer with a non-empty consistency list is returned with exactly
\* the service's scores and is_demo = false, and in every fact-check result
\* is_demo or timed_out is true only if the fallback scorer produced the scores.
C6_FlagsOnlyFromOrchestrator ==
    pc = "fact_done" =>
        /\ RealConsistency200(outcome.factcheck) =>
               /\ Get(factcheck_result, "consistency", EmptyList)
                      = outcome.factcheck.body.v.consistency
               /\ Get(factcheck_result, "is_demo", JBool(FALSE)) = JBool(FALSE)
        /\ Get(factcheck_result, "is_demo", JBool(FALSE)) = JBool(TRUE) => synthesized
        /\ Get(factcheck_result, "timed_out", JBool(FALSE)) = JBool(TRUE) => synthesized

\* the text the spans index: "Claim {i+1}: " + claim + " Fact {i+1}: " + fact
\* + "\n" over the pairs in order
RECURSIVE CombinedTextOf(_, _)
CombinedTextOf(ps, n) ==
    IF n = 0 THEN <<>>
    ELSE CombinedTextOf(ps, n - 1)
             \o <<"C", "l", "a", "i", "m", " ">> \o str(n) \o <<":", " ">> \o ps[n].claim
             \o <<" ", "F", "a", "c", "t", " ">> \o str(n) \o <<":", " ">> \o ps[n].fact
             \o <<"\n">>

\* s[b:e] for non-negative b, e: both ends are clamped to len(s)
Slice(s, b, e) ==
    LET lo == Min(b, Len(s))
        hi == Min(e, Len(s))
    IN  IF lo >= hi THEN <<>> ELSE SubSeq(s, lo + 1, hi)

SpanOk(text, span) ==
    /\ span.begin <= span.end
    /\ Slice(text, span.begin, span.end) = span.text

\* C7: after any number of iterations of the span loop, the joined parts are
\* the combined text of the pairs consumed, and every claim span and fact
\* span recorded (in the records and in their cross-links) has begin <= end
\* and combinedText[begin:end] = text, the text being that of its pair.
C7_SpansMatchCombinedText ==
    pc = "span_loop" =>
        LET text == Join(combined_text_parts)
        IN  /\ text = CombinedTextOf(pairs, Len(pairs))
            /\ Len(claims_all) = Len(pairs)
            /\ Len(facts_all) = Len(pairs)
            /\ \A i \in 1..Len(pairs) :
                   /\ claims_all[i].text = pairs[i].claim
                   /\ facts_all[i].text = pairs[i].fact
                   /\ SpanOk(text, claims_all[i])
                   /\ SpanOk(text, facts_all[i])
                   /\ \A k \in 1..Len(claims_all[i].facts) : SpanOk(text, claims_all[i].facts[k])
                   /\ \A k \in 1..Len(facts_all[i].claims) : SpanOk(text, facts_all[i].claims[k])

C7_Witness ==
    /\ pc = "span_loop"
    /\ Len(pairs) >= 10
    /\ pairs[9].claim = <<>>
    /\ pairs[9].fact = <<>>
    /\ pairs[10].claim /= <<>>
    /\ pairs[10].fact /= <<>>
    /\ Len(claims_all) = Len(pairs)
    /\ claims_all[10].begin < claims_all[10].end
    /\ Slice(Join(combined_text_parts), facts_all[10].begin, facts_all[10].end) = pairs[10].fact

Rendered ==
    /\ report.sentiment /= <<>>
    /\ report.hate /= <<>>
    /\ report.fact /= <<>>

\* C8: once all probes succeeded, whatever each stage received (success,
\* bad status, transport error, timeout, a 200 with an empty payload), no
\* exception ends the run: control is at a stage, at the renderer or at the
\* end, and at the end the report is rendered and the status is 0.
C8_NoErrorEscapes ==
    (ProbesDone /\ AllProbesOk) =>
        /\ pc \in {"check", "run_sentiment", "run_hatecheck", "run_factcheck", "display", "done"}
        /\ (pc = "done" => exit_status = 0 /\ Rendered)
        /\ (pc /= "done" => exit_status = -1 /\ report = NoReport)

\* C9 as stated: for every non-empty string s, the fallback score of the
\* pair with claim = fact = s is 1.0.
C9_NonEmptySameStringScoresOne ==
    (pc = "score_done" /\ pairs[1].claim = pairs[1].fact /\ pairs[1].claim /= <<>>) =>
        scores = <<Rat(1, 1)>>

\* C9 amended: for every string s with at least one character that
\* str.split() does not separate on, the fallback score of the pair with
\* claim = fact = s is 1.0.
C9_SameTokensScoreOne ==
    (/\ pc = "score_done"
     /\ pairs[1].claim = pairs[1].fact
     /\ \E i \in 1..Len(pairs[1].claim) : pairs[1].claim[i] \notin Whitespace) =>
        scores = <<Rat(1, 1)>>

C9_Witness ==
    /\ pc = "score_done"
    /\ pairs[1].claim = <<"a", "\\x0b", "B">>
    /\ pairs[1].fact = <<"a", "\\x0b", "B">>
    /\ scores = <<Rat(1, 1)>>

Shows(lines, kinds) == \E i \in 1..Len(lines) : lines[i] \in kinds

\* C10: in every rendered report each of the three sections shows a result
\* (real or demo) or an explicit marker that there is none.
C10_EverySectionShowsSomething ==
    (pc = "done" /\ exit_status = 0) =>
        /\ Shows(report.sentiment, {"Sentiment Scores:", "(No output)"})
        /\ Shows(report.hate, {"Hate Speech Detection Scores:", "(No hate speech detected)",
                               "(No output)"})
        /\ Shows(report.fact, {"Fact-Checking Results", "(No results)", "(No output)"})

====
